---- MODULE Spec2Model ----
(***************************************************************************)
(* DuckDBWrapper (src/duckDB/duckdb_wrapper.py): a facade over one DuckDB  *)
(* connection.  The facade's fields, the engine objects it drives (handles,*)
(* relations, files, session options, extensions, the per-connection       *)
(* result cursor) and the caller-side lazy sequence are the state; every   *)
(* public method is one action.                                            *)
(***************************************************************************)
EXTENDS Integers, Sequences, FiniteSets, TLC

VARIABLES
    dbFile,     \* self.db_file is set: the database is a file, not in memory
    conn,       \* self._conn: 0 is None, otherwise the handle it refers to
    hstate,     \* engine handles: "unopened", "open" or "closed"
    closes,     \* how many times each handle has been released
    scope,      \* the with-statement: "out", or "in" with the handle opened on entry
    tables,     \* relations the connection sees: a function from the names that exist
    files,      \* the files, local and remote: a function from the paths that exist
    config,     \* session options of the current connection, from the keys that are set
    loaded,     \* extensions loaded in the current connection
    installed,  \* extensions installed on this machine
    cursor,     \* per handle: the unread rows of its last statement's result
    gen,        \* the lazy sequence the caller holds (execute_query_fetch_one)
    last        \* the last call: its name, its outcome and what it returned

vars == <<dbFile, conn, hstate, closes, scope, tables, files, config, loaded,
          installed, cursor, gen, last>>

engine == <<tables, files, config, loaded, installed, cursor>>

----------------------------------------------------------------------------
(* Bounds *)

\* Connections one facade opens in a run.
MaxHandles == 2

\* Rows a caller pulls from one lazy sequence before abandoning it.
MaxYield == 3

Handles == 1..MaxHandles

----------------------------------------------------------------------------
(* Python values *)

\* Cell values are integers: data values are positive, and two markers stand
\* for the values that are no number.
DataValues == {1, 2}

\* None as a cell value (what a fetch returns for NULL).
None == 0

\* The value pandas puts where a row has no entry for a column.
NaN == -1

\* params=None: no parameters are bound.
NoParams == <<>>

\* A dict is kept as its ordered item list: a sequence of <<key, value>>
\* pairs with distinct keys.
DictKeys(d) == [i \in 1..Len(d) |-> d[i][1]]

KeySet(d) == {d[i][1] : i \in 1..Len(d)}

DictGet(d, k) == LET i == CHOOSE j \in 1..Len(d) : d[j][1] = k IN d[i][2]

\* d[k] = v: an existing key keeps its place, a new key goes last.
DictSet(d, k, v) ==
    IF k \in KeySet(d)
    THEN [i \in 1..Len(d) |-> IF d[i][1] = k THEN <<k, v>> ELSE d[i]]
    ELSE Append(d, <<k, v>>)

\* Python's == on dicts ignores the order of the items.
DictEq(d, e) ==
    /\ KeySet(d) = KeySet(e)
    /\ \A k \in KeySet(d) : DictGet(d, k) = DictGet(e, k)

\* Python's == on lists of dicts.
RowsEq(x, y) ==
    /\ Len(x) = Len(y)
    /\ \A i \in 1..Len(x) : DictEq(x[i], y[i])

Min(a, b) == IF a < b THEN a ELSE b

\* dict(zip(columns, row)): pairs up to the shorter length, inserted left to
\* right.
RECURSIVE ZipInto(_, _, _, _)
ZipInto(d, columns, row, i) ==
    IF i > Min(Len(columns), Len(row)) THEN d
    ELSE ZipInto(DictSet(d, columns[i], row[i]), columns, row, i + 1)

DictZip(columns, row) == ZipInto(<<>>, columns, row, 1)

\* [dict(zip(columns, row)) for row in rows]
Materialize(columns, rows) == [i \in 1..Len(rows) |-> DictZip(columns, rows[i])]

----------------------------------------------------------------------------
(* pandas.DataFrame(data) *)

\* The keys of the rows in order of first appearance.
RECURSIVE UnionKeys(_, _, _)
UnionKeys(acc, data, i) ==
    IF i > Len(data) THEN acc
    ELSE LET ks == DictKeys(data[i])
             new == SelectSeq(ks, LAMBDA k : k \notin {acc[j] : j \in 1..Len(acc)})
         IN UnionKeys(acc \o new, data, i + 1)

FrameColumns(data) == UnionKeys(<<>>, data, 1)

FrameRow(columns, d) ==
    [i \in 1..Len(columns) |->
        IF columns[i] \in KeySet(d) THEN DictGet(d, columns[i]) ELSE NaN]

\* df = pd.DataFrame(data): a relation with the union of the keys as columns.
DataFrame(data) ==
    LET columns == FrameColumns(data)
    IN [cols |-> columns,
        rows |-> [i \in 1..Len(data) |-> FrameRow(columns, data[i])]]

----------------------------------------------------------------------------
(* The engine: relations, files and statements *)

\* A relation, and the content of a file, is [cols, rows]: the ordered column
\* names and the rows as tuples.  tables and files are functions whose domain
\* is the set of relations, respectively paths, that exist.

TempTable == "temp_table"

TableNames == {"t", "u"}

\* A path is [dir, base, ext]; os.path.join(dir, base + ext) builds one.
Path(dir, base, ext) == [dir |-> dir, base |-> base, ext |-> ext]

Paths == {Path("d", "f", ".parquet"), Path("d", "f", ".dat")}

\* A path in remote object storage.
RemoteDir == "s3://b"

RemotePath == Path(RemoteDir, "f", ".parquet")

\* The engine reads and writes a remote path through the httpfs extension,
\* signing its requests with the session options s3_access_key_id and
\* s3_secret_access_key.  (An engine that loads httpfs by itself when it meets
\* such a path is left out.)
Reachable(path, C) ==
    \/ path.dir # RemoteDir
    \/ /\ "httpfs" \in loaded
       /\ {"s3_access_key_id", "s3_secret_access_key"} \subseteq DOMAIN C

\* COPY ... TO without a FORMAT option takes the format from the file
\* extension and falls back to CSV.
FormatOf(path, format) ==
    IF format # "auto" THEN format
    ELSE IF path.ext = ".parquet" THEN "parquet" ELSE "csv"

\* A pandas column scanned by the engine: NaN is read as NULL, which a fetch
\* returns as None.
ScanValue(v) == IF v = NaN THEN None ELSE v

ScanFrame(df) ==
    [cols |-> df.cols,
     rows |-> [i \in 1..Len(df.rows) |->
                  [j \in 1..Len(df.cols) |-> ScanValue(df.rows[i][j])]]]

ColumnIndex(cols, c) == CHOOSE j \in 1..Len(cols) : cols[j] = c

ColumnSet(cols) == {cols[j] : j \in 1..Len(cols)}

\* A filter condition "<col> > <gt>"; NULL compares as unknown.
CondHolds(cond, cols, row) ==
    LET v == row[ColumnIndex(cols, cond.col)]
    IN v # None /\ v > cond.gt

Project(rel, select) ==
    [cols |-> select,
     rows |-> [i \in 1..Len(rel.rows) |->
                  [j \in 1..Len(select) |->
                      rel.rows[i][ColumnIndex(rel.cols, select[j])]]]]

Ok(cols, rows, T, F, C) ==
    [err |-> "none", cols |-> cols, rows |-> rows,
     tables |-> T, files |-> F, config |-> C]

\* A statement the engine rejects: duckdb.Error, nothing changes.
Rejected(T, F, C) ==
    [err |-> "duckdb.Error", cols |-> <<>>, rows |-> <<>>,
     tables |-> T, files |-> F, config |-> C]

\* conn.execute(stmt, params) on a database with relations T, files F and
\* session options C; io says whether the file system accepts a write.
Execute(stmt, params, T, F, C, io) ==
    CASE stmt.kind = "bad" -> Rejected(T, F, C)
      [] stmt.kind = "select" ->
            IF stmt.table \in DOMAIN T /\ params = NoParams
            THEN Ok(T[stmt.table].cols, T[stmt.table].rows, T, F, C)
            ELSE Rejected(T, F, C)
      [] stmt.kind = "dup" ->
            \* SELECT 1 AS a, 2 AS a
            IF params = NoParams THEN Ok(<<"a", "a">>, << <<1, 2>> >>, T, F, C)
            ELSE Rejected(T, F, C)
      [] stmt.kind = "param" ->
            \* SELECT ? AS a
            IF Len(params) = 1
            THEN Ok(<<"a">>, << <<params[1]>> >>, T, F, C)
            ELSE Rejected(T, F, C)
      [] stmt.kind = "ctas" ->
            \* CREATE [TEMPORARY] TABLE <table> AS SELECT * FROM df
            IF stmt.table \notin DOMAIN T /\ Len(stmt.df.cols) > 0
            THEN Ok(<<"Count">>, << <<Len(stmt.df.rows)>> >>,
                    [n \in DOMAIN T \cup {stmt.table} |->
                        IF n = stmt.table THEN ScanFrame(stmt.df) ELSE T[n]],
                    F, C)
            ELSE Rejected(T, F, C)
      [] stmt.kind = "copy" ->
            \* COPY <table> TO '<path>' [(FORMAT <format>)]
            IF stmt.table \in DOMAIN T /\ io /\ Reachable(stmt.path, C)
            THEN Ok(<<"Count">>, << <<Len(T[stmt.table].rows)>> >>, T,
                    [p \in DOMAIN F \cup {stmt.path} |->
                        IF p = stmt.path
                        THEN [fmt |-> FormatOf(stmt.path, stmt.format),
                              cols |-> T[stmt.table].cols,
                              rows |-> T[stmt.table].rows]
                        ELSE F[p]],
                    C)
            ELSE Rejected(T, F, C)
      [] stmt.kind = "drop" ->
            IF stmt.table \in DOMAIN T
            THEN Ok(<<"Success">>, <<>>,
                    [n \in DOMAIN T \ {stmt.table} |-> T[n]], F, C)
            ELSE Rejected(T, F, C)
      [] stmt.kind = "read" ->
            \* SELECT <select> FROM read_<ftype>('<path>') [WHERE <conds>]
            IF /\ Reachable(stmt.path, C)
               /\ stmt.path \in DOMAIN F
               /\ F[stmt.path].fmt = stmt.ftype
               /\ \A j \in 1..Len(stmt.select) :
                     stmt.select[j] = "*" \/ stmt.select[j] \in ColumnSet(F[stmt.path].cols)
               /\ \A j \in 1..Len(stmt.conds) :
                     stmt.conds[j].col \in ColumnSet(F[stmt.path].cols)
            THEN LET f == F[stmt.path]
                     kept == SelectSeq(f.rows,
                                LAMBDA r : \A j \in 1..Len(stmt.conds) :
                                              CondHolds(stmt.conds[j], f.cols, r))
                     rel == [cols |-> f.cols, rows |-> kept]
                     out == IF stmt.select = <<"*">> THEN rel
                            ELSE Project(rel, stmt.select)
                 IN Ok(out.cols, out.rows, T, F, C)
            ELSE Rejected(T, F, C)
      [] stmt.kind = "set" ->
            \* SET <key>='<value>'
            IF io
            THEN Ok(<<"Success">>, <<>>, T, F,
                    [k \in DOMAIN C \cup {stmt.key} |->
                        IF k = stmt.key THEN stmt.value ELSE C[k]])
            ELSE Rejected(T, F, C)

----------------------------------------------------------------------------
(* What callers pass in *)

Row(a, b) == << <<"a", a>>, <<"b", b>> >>

\* Datasets (lists of dicts): none, one with two uniform rows, one whose rows
\* have different keys.
UniformRows == << Row(1, 2), Row(2, 1) >>

MixedRows == << << <<"a", 1>> >>, << <<"b", 2>> >> >>

Datasets == { <<>>, UniformRows, MixedRows }

\* More datasets for the table round trip: one row, the same keys in another
\* order, and a repeated row.
RoundTripData ==
    Datasets \cup { << Row(2, 2) >>,
                    << << <<"b", 1>>, <<"a", 2>> >>, Row(1, 2) >>,
                    << Row(1, 1), Row(1, 1) >> }

Stmt(kind) == [kind |-> kind]

\* Statements callers hand to execute_query and execute_query_fetch_one.
Queries == { [kind |-> "select", table |-> "t"],
             [kind |-> "drop", table |-> TempTable],
             Stmt("dup"), Stmt("param"), Stmt("bad") }

ParamValues == { NoParams, <<1>> }

FileTypes == {"csv", "parquet", "xml"}

SelectColumns == { <<>>, <<"a">>, <<"b", "a">> }

FilterConditions == { <<>>, << [col |-> "a", gt |-> 1] >> }

\* With a list of two conditions.
ReadConditions ==
    FilterConditions \cup { << [col |-> "a", gt |-> 1], [col |-> "b", gt |-> 1] >> }

\* What the identity service answers, and a CredentialSet.
Identities == {"valid", "invalid", "absent"}

Extensions == <<"httpfs", "aws">>

\* aws_config of connect_to_s3, in the order .items() yields it.
AwsConfig == << <<"s3_access_key_id", "AK">>, <<"s3_secret_access_key", "SK">>,
                <<"s3_session_token", "TK">>, <<"s3_region", "RG">> >>

\* The engine calls of connect_to_s3 in order: four SETs, then install and
\* load for each extension.
S3Steps == Len(AwsConfig) + 2 * Len(Extensions)

----------------------------------------------------------------------------
(* The facade *)

EmptyMap == [n \in {} |-> 0]

NoResult == [open |-> FALSE, rows |-> <<>>]

\* The lazy sequence: st is "none" (the caller holds none), "new" (created,
\* not pulled), "running" (suspended at its yield), "done" or "failed"; h and
\* columns are its locals result and columns; yielded is what it has handed
\* out.  Two history fields: want is what execute_query would have returned
\* for the statement in the state of the first pull, and clean says that no
\* other call has used the connection since.
NoGen == [st |-> "none", stmt |-> Stmt("none"), params |-> NoParams, h |-> 0,
          columns |-> <<>>, yielded |-> <<>>, want |-> <<>>, clean |-> TRUE]

\* The outcome of a call: err is "none" or the class of the exception that
\* reached the caller, rows the returned (or yielded) rows, calls the number of
\* engine calls made, connected whether self._conn was set when the call
\* began, logged the number of records logged at error level, info the number
\* logged at info level, sts the number of requests made to the identity
\* service.

\* The logger.info calls a method passes on its way to the outcome.  A pull
\* of a lazy sequence sets its own number.
InfoRecords(op, err, calls, connected) ==
    CASE op = "__init__" -> 1
      [] op \in {"create_duckdb_connection", "__enter__"} ->
            IF err = "none" THEN 1 ELSE 0
      [] op = "connect_to_s3" ->
            IF err = "none" THEN 2 ELSE IF calls > Len(AwsConfig) THEN 1 ELSE 0
      [] op \in {"close", "__exit__"} -> IF connected THEN 1 ELSE 0
      [] op = "read_file" ->
            IF err = "ValueError" THEN 0 ELSE IF err = "none" THEN 4 ELSE 2
      [] op \in {"execute_query", "save_parquet", "create_table",
                 "save_table_as_parquet"} ->
            IF err = "none" THEN 2 ELSE 1
      [] OTHER -> 0

Outcome(op, err, rows, calls, connected, logged) ==
    [op |-> op, err |-> err, rows |-> rows, calls |-> calls,
     connected |-> connected, logged |-> logged,
     info |-> InfoRecords(op, err, calls, connected), sts |-> 0]

Connected == conn # 0

\* __init__: no connection; the machine has no files and no extensions.
Init ==
    /\ dbFile \in BOOLEAN
    /\ conn = 0
    /\ hstate = [h \in Handles |-> "unopened"]
    /\ closes = [h \in Handles |-> 0]
    /\ scope = [in |-> FALSE, entry |-> 0]
    /\ tables = EmptyMap
    /\ files = EmptyMap
    /\ config = EmptyMap
    /\ loaded = {}
    /\ installed = {}
    /\ cursor = [h \in Handles |-> NoResult]
    /\ gen = NoGen
    /\ last = Outcome("__init__", "none", <<>>, 0, FALSE, 0)

\* The engine state after a statement ran on the current connection; unread
\* is what the caller left in the result.
\* A faulty engine: a statement gets a cursor of its own while a lazy
\* sequence is suspended on the connection, whose result stays as it is.
ApplyKeepsPendingResult(r, unread) ==
    /\ tables' = r.tables
    /\ files' = r.files
    /\ config' = r.config
    /\ cursor' = IF gen.st = "running" /\ gen.h = conn THEN cursor
                 ELSE [cursor EXCEPT ![conn] =
                          IF r.err = "none" THEN [open |-> TRUE, rows |-> unread]
                          ELSE NoResult]

Apply(r, unread) ==
    /\ tables' = r.tables
    /\ files' = r.files
    /\ config' = r.config
    /\ cursor' = [cursor EXCEPT ![conn] =
                     IF r.err = "none" THEN [open |-> TRUE, rows |-> unread]
                     ELSE NoResult]

\* A statement on the current connection takes the cursor a suspended lazy
\* sequence reads from.
Disturb(g) ==
    IF g.st = "running" /\ g.h = conn THEN [g EXCEPT !.clean = FALSE] ELSE g

----------------------------------------------------------------------------
(* Lifecycle: create_duckdb_connection, close, __enter__, __exit__ *)

Unopened == {h \in Handles : hstate[h] = "unopened"}

NewHandle == CHOOSE h \in Unopened : \A k \in Unopened : h <= k

\* What a new connection sees: the relations kept in the database file, or
\* an empty in-memory database.  Temporary relations belong to the connection
\* that made them.
Persisted == IF dbFile THEN [n \in DOMAIN tables \ {TempTable} |-> tables[n]]
             ELSE EmptyMap

\* A suspended lazy sequence holds the connection its statement ran on.
Referenced(h) == gen.st = "running" /\ gen.h = h

\* The body of create_duckdb_connection.  ok: duckdb.connect succeeds.  The
\* handle self._conn referred to is not closed: it is dropped, and kept says
\* whether it stays open (still referenced, or not finalised yet) or the
\* runtime finalises it at once.
Connect(op, ok, kept) ==
    /\ Unopened # {}
    /\ kept \/ ~Referenced(conn)
    /\ IF ~ok
       THEN /\ last' = Outcome(op, "duckdb.Error", <<>>, 1, Connected, 0)
            /\ UNCHANGED <<conn, hstate, closes, tables, config, loaded, cursor>>
       ELSE /\ conn' = NewHandle
            /\ hstate' = [h \in Handles |->
                             IF h = NewHandle THEN "open"
                             ELSE IF h = conn /\ ~kept THEN "closed"
                             ELSE hstate[h]]
            /\ closes' = [h \in Handles |->
                             IF h = conn /\ ~kept THEN closes[h] + 1 ELSE closes[h]]
            /\ cursor' = [h \in Handles |->
                             IF h = conn /\ ~kept THEN NoResult ELSE cursor[h]]
            /\ tables' = Persisted
            /\ config' = EmptyMap
            /\ loaded' = {}
            /\ last' = Outcome(op, "none", <<>>, 1, Connected, 0)
    /\ UNCHANGED <<dbFile, files, installed, gen>>

CreateDuckdbConnection(ok, kept) ==
    /\ Connect("create_duckdb_connection", ok, kept)
    /\ UNCHANGED scope

\* close without the final self._conn = None: the facade keeps the handle it
\* has closed.
CloseBodyKeepsConn(op) ==
    /\ IF conn # 0
       THEN /\ hstate' = [hstate EXCEPT ![conn] = "closed"]
            /\ closes' = [closes EXCEPT ![conn] = @ + 1]
            /\ cursor' = [cursor EXCEPT ![conn] = NoResult]
            /\ tables' = Persisted
            /\ config' = EmptyMap
            /\ loaded' = {}
            /\ gen' = Disturb(gen)
            /\ last' = Outcome(op, "none", <<>>, 1, TRUE, 0)
            /\ UNCHANGED conn
       ELSE /\ last' = Outcome(op, "none", <<>>, 0, FALSE, 0)
            /\ UNCHANGED <<conn, hstate, closes, cursor, tables, config, loaded, gen>>
    /\ UNCHANGED <<dbFile, files, installed>>

\* The body of close.
CloseBody(op) ==
    /\ IF conn # 0
       THEN /\ hstate' = [hstate EXCEPT ![conn] = "closed"]
            /\ closes' = [closes EXCEPT ![conn] = @ + 1]
            /\ cursor' = [cursor EXCEPT ![conn] = NoResult]
            /\ conn' = 0
            /\ tables' = Persisted
            /\ config' = EmptyMap
            /\ loaded' = {}
            /\ gen' = Disturb(gen)
            /\ last' = Outcome(op, "none", <<>>, 1, TRUE, 0)
       ELSE /\ last' = Outcome(op, "none", <<>>, 0, FALSE, 0)
            /\ UNCHANGED <<conn, hstate, closes, cursor, tables, config, loaded, gen>>
    /\ UNCHANGED <<dbFile, files, installed>>

Close ==
    /\ CloseBody("close")
    /\ UNCHANGED scope

\* with DuckDBWrapper(...) as w: __enter__ connects; when connecting fails the
\* scope is not entered.
Enter(ok, kept) ==
    /\ ~scope.in
    /\ Connect("__enter__", ok, kept)
    /\ scope' = IF ok THEN [in |-> TRUE, entry |-> NewHandle] ELSE scope

\* Leaving the scope, whether the body returned or raised: __exit__ closes and
\* returns None, so an exception of the body goes on to the caller.
Exit ==
    /\ scope.in
    /\ CloseBody("__exit__")
    /\ scope' = [scope EXCEPT !.in = FALSE]

----------------------------------------------------------------------------
(* Query executor: execute_query, execute_query_fetch_one *)

\* What execute_query returns on an open connection whose database is
\* (T, F, C): the rows of the result, each zipped with the column names of
\* result.description, or the engine's error.
ExecuteQueryResult(stmt, params, T, F, C) ==
    LET r == Execute(stmt, params, T, F, C, TRUE)
        columns == r.cols
    IN [err |-> r.err,
        rows |-> IF r.err = "none" THEN Materialize(columns, r.rows) ELSE <<>>]

\* The try block of execute_query, as execute_query (outer = 0) and as
\* read_file calls it (outer = 1: read_file's handler logs the error once
\* more).  Without a connection self._conn.execute is an attribute lookup on
\* None.
QueryBody(op, stmt, params, outer) ==
    /\ IF conn = 0
       THEN /\ last' = Outcome(op, "AttributeError", <<>>, 0, FALSE, 1 + outer)
            /\ UNCHANGED <<tables, files, config, cursor, gen>>
       ELSE LET r == Execute(stmt, params, tables, files, config, TRUE)
                out == ExecuteQueryResult(stmt, params, tables, files, config)
            IN /\ Apply(r, <<>>)
               /\ gen' = Disturb(gen)
               /\ last' = Outcome(op, out.err, out.rows, 1, TRUE,
                                  IF out.err = "none" THEN 0 ELSE 1 + outer)
    /\ UNCHANGED <<dbFile, conn, hstate, closes, scope, loaded, installed>>

ExecuteQuery(stmt, params) == QueryBody("execute_query", stmt, params, 0)

\* A faulty variant: a plain method that sends the statement to the engine
\* when it is called.
ExecuteQueryFetchOneEager(stmt, params) ==
    /\ gen' = [NoGen EXCEPT !.st = "new", !.stmt = stmt, !.params = params]
    /\ IF conn = 0
       THEN /\ last' = Outcome("execute_query_fetch_one", "AttributeError", <<>>, 0,
                               FALSE, 1)
            /\ UNCHANGED engine
       ELSE LET r == Execute(stmt, params, tables, files, config, TRUE)
            IN /\ Apply(r, r.rows)
               /\ last' = Outcome("execute_query_fetch_one", r.err, <<>>, 1, TRUE,
                                  IF r.err = "none" THEN 0 ELSE 1)
               /\ UNCHANGED <<loaded, installed>>
    /\ UNCHANGED <<dbFile, conn, hstate, closes, scope>>

\* Calling the generator function runs none of its body.
ExecuteQueryFetchOne(stmt, params) ==
    /\ gen' = [NoGen EXCEPT !.st = "new", !.stmt = stmt, !.params = params]
    /\ last' = Outcome("execute_query_fetch_one", "none", <<>>, 0, Connected, 0)
    /\ UNCHANGED <<dbFile, conn, hstate, closes, scope, engine>>

\* The generator stops: with an exception (err) or by exhaustion.
Stopped(g, st) == [g EXCEPT !.st = st]

\* The first pull: the body runs up to its first yield.
FirstPull ==
    IF conn = 0
    THEN /\ gen' = Stopped(gen, "failed")
         /\ last' = [Outcome("next", "AttributeError", <<>>, 0, FALSE, 1)
                        EXCEPT !.info = 1]
         /\ UNCHANGED engine
    ELSE LET r == Execute(gen.stmt, gen.params, tables, files, config, TRUE)
             g == [gen EXCEPT !.h = conn, !.columns = r.cols,
                              !.want = ExecuteQueryResult(gen.stmt, gen.params,
                                                          tables, files, config).rows]
         IN IF r.err # "none"
            THEN /\ Apply(r, <<>>)
                 /\ gen' = Stopped(gen, "failed")
                 /\ last' = [Outcome("next", r.err, <<>>, 1, TRUE, 1) EXCEPT !.info = 1]
                 /\ UNCHANGED <<loaded, installed>>
            ELSE IF r.rows = <<>>
            THEN /\ Apply(r, <<>>)
                 /\ gen' = Stopped(g, "done")
                 /\ last' = [Outcome("next", "StopIteration", <<>>, 2, TRUE, 0)
                                EXCEPT !.info = 2]
                 /\ UNCHANGED <<loaded, installed>>
            ELSE LET d == DictZip(r.cols, Head(r.rows))
                 IN /\ Apply(r, Tail(r.rows))
                    /\ gen' = [g EXCEPT !.st = "running", !.yielded = <<d>>]
                    /\ last' = [Outcome("next", "none", <<d>>, 2, TRUE, 0)
                                   EXCEPT !.info = 1]
                    /\ UNCHANGED <<loaded, installed>>

\* A faulty later pull: the loop ends on the last row instead of after it.
LaterPullDropsLast ==
    LET c == cursor[gen.h]
    IN /\ IF hstate[gen.h] # "open" \/ ~c.open
          THEN /\ gen' = Stopped(gen, "failed")
               /\ last' = Outcome("next", "duckdb.Error", <<>>, 1, Connected, 1)
               /\ UNCHANGED cursor
          ELSE IF Len(c.rows) <= 1
          THEN /\ gen' = Stopped(gen, "done")
               /\ last' = [Outcome("next", "StopIteration", <<>>, 1, Connected, 0)
                              EXCEPT !.info = 1]
               /\ cursor' = [cursor EXCEPT ![gen.h].rows = <<>>]
          ELSE LET d == DictZip(gen.columns, Head(c.rows))
               IN /\ cursor' = [cursor EXCEPT ![gen.h].rows = Tail(c.rows)]
                  /\ gen' = [gen EXCEPT !.yielded = Append(@, d)]
                  /\ last' = Outcome("next", "none", <<d>>, 1, Connected, 0)
       /\ UNCHANGED <<tables, files, config, loaded, installed>>

\* A later pull: result.fetchone() on the connection the statement ran on.
LaterPull ==
    LET c == cursor[gen.h]
    IN /\ IF hstate[gen.h] # "open" \/ ~c.open
          THEN /\ gen' = Stopped(gen, "failed")
               /\ last' = Outcome("next", "duckdb.Error", <<>>, 1, Connected, 1)
               /\ UNCHANGED cursor
          ELSE IF c.rows = <<>>
          THEN /\ gen' = Stopped(gen, "done")
               /\ last' = [Outcome("next", "StopIteration", <<>>, 1, Connected, 0)
                              EXCEPT !.info = 1]
               /\ UNCHANGED cursor
          ELSE LET d == DictZip(gen.columns, Head(c.rows))
               IN /\ cursor' = [cursor EXCEPT ![gen.h].rows = Tail(c.rows)]
                  /\ gen' = [gen EXCEPT !.yielded = Append(@, d)]
                  /\ last' = Outcome("next", "none", <<d>>, 1, Connected, 0)
       /\ UNCHANGED <<tables, files, config, loaded, installed>>

\* next() on the lazy sequence the caller holds.
GenNext ==
    /\ gen.st # "none"
    /\ gen.st = "running" => Len(gen.yielded) < MaxYield
    /\ CASE gen.st = "new" -> FirstPull
         [] gen.st = "running" -> LaterPull
         [] OTHER -> /\ last' = Outcome("next", "StopIteration", <<>>, 0, Connected, 0)
                     /\ UNCHANGED <<gen, engine>>
    /\ UNCHANGED <<dbFile, conn, hstate, closes, scope>>

----------------------------------------------------------------------------
(* Interchange operations: save_parquet, read_file, create_table,
   save_table_as_parquet *)

\* A variant that cleans up: the relation is dropped when the copy fails too.
SaveParquetDropsAlways(data, path, io) ==
    /\ IF conn = 0
       THEN /\ last' = Outcome("save_parquet", "AttributeError", <<>>, 0, FALSE, 1)
            /\ UNCHANGED <<tables, files, config, cursor, gen>>
       ELSE LET df == DataFrame(data)
                r1 == Execute([kind |-> "ctas", table |-> TempTable, df |-> df],
                              NoParams, tables, files, config, TRUE)
                r2 == Execute([kind |-> "copy", table |-> TempTable, path |-> path,
                               format |-> "auto"],
                              NoParams, r1.tables, r1.files, r1.config, io)
                r3 == Execute([kind |-> "drop", table |-> TempTable],
                              NoParams, r2.tables, r2.files, r2.config, TRUE)
            IN /\ gen' = Disturb(gen)
               /\ IF r1.err # "none"
                  THEN /\ Apply(r1, r1.rows)
                       /\ last' = Outcome("save_parquet", r1.err, <<>>, 1, TRUE, 1)
                  ELSE IF r2.err # "none"
                  THEN /\ Apply(r3, r3.rows)
                       /\ last' = Outcome("save_parquet", r2.err, <<>>, 3, TRUE, 1)
                  ELSE /\ Apply(r3, r3.rows)
                       /\ last' = Outcome("save_parquet", r3.err, <<>>, 3, TRUE,
                                          IF r3.err = "none" THEN 0 ELSE 1)
    /\ UNCHANGED <<dbFile, conn, hstate, closes, scope, loaded, installed>>

\* A variant that recovers: CREATE OR REPLACE takes the place of a relation
\* temp_table left behind.
SaveParquetReplaces(data, path, io) ==
    /\ IF conn = 0
       THEN /\ last' = Outcome("save_parquet", "AttributeError", <<>>, 0, FALSE, 1)
            /\ UNCHANGED <<tables, files, config, cursor, gen>>
       ELSE LET df == DataFrame(data)
                r1 == Execute([kind |-> "ctas", table |-> TempTable, df |-> df],
                              NoParams,
                              [n \in DOMAIN tables \ {TempTable} |-> tables[n]],
                              files, config, TRUE)
                r2 == Execute([kind |-> "copy", table |-> TempTable, path |-> path,
                               format |-> "auto"],
                              NoParams, r1.tables, r1.files, r1.config, io)
                r3 == Execute([kind |-> "drop", table |-> TempTable],
                              NoParams, r2.tables, r2.files, r2.config, TRUE)
            IN /\ gen' = Disturb(gen)
               /\ IF r1.err # "none"
                  THEN /\ Apply(r1, r1.rows)
                       /\ last' = Outcome("save_parquet", r1.err, <<>>, 1, TRUE, 1)
                  ELSE IF r2.err # "none"
                  THEN /\ Apply(r2, r2.rows)
                       /\ last' = Outcome("save_parquet", r2.err, <<>>, 2, TRUE, 1)
                  ELSE /\ Apply(r3, r3.rows)
                       /\ last' = Outcome("save_parquet", r3.err, <<>>, 3, TRUE,
                                          IF r3.err = "none" THEN 0 ELSE 1)
    /\ UNCHANGED <<dbFile, conn, hstate, closes, scope, loaded, installed>>

\* The three statements of save_parquet, each on the state the one before
\* left; the first that fails ends the call.
SaveParquet(data, path, io) ==
    /\ IF conn = 0
       THEN /\ last' = Outcome("save_parquet", "AttributeError", <<>>, 0, FALSE, 1)
            /\ UNCHANGED <<tables, files, config, cursor, gen>>
       ELSE LET df == DataFrame(data)
                r1 == Execute([kind |-> "ctas", table |-> TempTable, df |-> df],
                              NoParams, tables, files, config, TRUE)
                r2 == Execute([kind |-> "copy", table |-> TempTable, path |-> path,
                               format |-> "auto"],
                              NoParams, r1.tables, r1.files, r1.config, io)
                r3 == Execute([kind |-> "drop", table |-> TempTable],
                              NoParams, r2.tables, r2.files, r2.config, TRUE)
            IN /\ gen' = Disturb(gen)
               /\ IF r1.err # "none"
                  THEN /\ Apply(r1, r1.rows)
                       /\ last' = Outcome("save_parquet", r1.err, <<>>, 1, TRUE, 1)
                  ELSE IF r2.err # "none"
                  THEN /\ Apply(r2, r2.rows)
                       /\ last' = Outcome("save_parquet", r2.err, <<>>, 2, TRUE, 1)
                  ELSE /\ Apply(r3, r3.rows)
                       /\ last' = Outcome("save_parquet", r3.err, <<>>, 3, TRUE,
                                          IF r3.err = "none" THEN 0 ELSE 1)
    /\ UNCHANGED <<dbFile, conn, hstate, closes, scope, loaded, installed>>

\* Statement text is a sequence of fragments: the literal pieces of the
\* f-strings and the values put between them.  A path is written dir/base.ext
\* and a condition col > n.
PathText(path) == <<path.dir, "/", path.base, path.ext>>

DigitText(n) == CASE n = 0 -> "0" [] n = 1 -> "1" [] n = 2 -> "2"

CondText(cond) == <<cond.col, " > ", DigitText(cond.gt)>>

\* sep.join(parts), from the i-th part on.
RECURSIVE Join(_, _, _)
Join(sep, parts, i) ==
    IF i > Len(parts) THEN <<>>
    ELSE IF i = Len(parts) THEN parts[i]
    ELSE parts[i] \o <<sep>> \o Join(sep, parts, i + 1)

\* A faulty join of the conditions: no parentheses around each.
ReadQueryTextBare(path, ftype, select, conds) ==
    LET columns == Join(", ", [i \in 1..Len(select) |-> <<select[i]>>], 1)
        query == IF select # <<>>
                 THEN <<"SELECT ">> \o columns \o <<" FROM read_", ftype, "('">>
                         \o PathText(path) \o <<"')">>
                 ELSE <<"SELECT ", "*", " FROM read_", ftype, "('">>
                         \o PathText(path) \o <<"')">>
        conditions == Join(" AND ", [i \in 1..Len(conds) |-> CondText(conds[i])], 1)
    IN IF conds # <<>> THEN query \o <<" WHERE ">> \o conditions ELSE query

\* The text of the statement read_file builds.
ReadQueryText(path, ftype, select, conds) ==
    LET columns == Join(", ", [i \in 1..Len(select) |-> <<select[i]>>], 1)
        query == IF select # <<>>
                 THEN <<"SELECT ">> \o columns \o <<" FROM read_", ftype, "('">>
                         \o PathText(path) \o <<"')">>
                 ELSE <<"SELECT ", "*", " FROM read_", ftype, "('">>
                         \o PathText(path) \o <<"')">>
        conditions == Join(" AND ",
                           [i \in 1..Len(conds) |->
                               <<"(">> \o CondText(conds[i]) \o <<")">>], 1)
    IN IF conds # <<>> THEN query \o <<" WHERE ">> \o conditions ELSE query

\* The statement read_file builds: its text, and what the engine reads in
\* it: the column list, or * for None and for an empty list, and the
\* conditions when there are any.
BuildReadQuery(path, ftype, select, conds) ==
    [kind |-> "read", ftype |-> ftype, path |-> path,
     select |-> IF select # <<>> THEN select ELSE <<"*">>,
     conds |-> conds,
     text |-> ReadQueryText(path, ftype, select, conds)]

\* A faulty check: every file type passes.
AnyFileType(ftype) == TRUE

ValidFileType(ftype) == ftype \in {"csv", "parquet"}

ReadFile(path, ftype, select, conds) ==
    IF ~ValidFileType(ftype)
    THEN /\ last' = Outcome("read_file", "ValueError", <<>>, 0, Connected, 0)
         /\ UNCHANGED <<dbFile, conn, hstate, closes, scope, engine, gen>>
    ELSE QueryBody("read_file", BuildReadQuery(path, ftype, select, conds), NoParams, 1)

\* A faulty check: no dataset counts as empty.
NeverNoData(data) == FALSE

\* if not data
NoData(data) == data = <<>>

CreateTable(name, data) ==
    /\ IF NoData(data)
       THEN /\ last' = Outcome("create_table", "ValueError", <<>>, 0, Connected, 1)
            /\ UNCHANGED <<tables, files, config, cursor, gen>>
       ELSE IF conn = 0
       THEN /\ last' = Outcome("create_table", "AttributeError", <<>>, 0, FALSE, 1)
            /\ UNCHANGED <<tables, files, config, cursor, gen>>
       ELSE LET r == Execute([kind |-> "ctas", table |-> name, df |-> DataFrame(data)],
                             NoParams, tables, files, config, TRUE)
            IN /\ Apply(r, r.rows)
               /\ gen' = Disturb(gen)
               /\ last' = Outcome("create_table", r.err, <<>>, 1, TRUE,
                                  IF r.err = "none" THEN 0 ELSE 1)
    /\ UNCHANGED <<dbFile, conn, hstate, closes, scope, loaded, installed>>

\* A faulty path: the file name is used as it is, without .parquet.
SaveTableStmtBareName(name, dir, base) ==
    [kind |-> "copy", table |-> name, path |-> Path(dir, base, ""),
     format |-> "parquet"]

\* full_path = os.path.join(file_path, f"{file_name}.parquet") and
\* COPY <table_name> TO '<full_path>' (FORMAT PARQUET)
SaveTableStmt(name, dir, base) ==
    [kind |-> "copy", table |-> name, path |-> Path(dir, base, ".parquet"),
     format |-> "parquet"]

SaveTableAsParquet(name, dir, base, io) ==
    /\ IF conn = 0
       THEN /\ last' = Outcome("save_table_as_parquet", "AttributeError", <<>>, 0, FALSE, 1)
            /\ UNCHANGED <<tables, files, config, cursor, gen>>
       ELSE LET r == Execute(SaveTableStmt(name, dir, base),
                             NoParams, tables, files, config, io)
            IN /\ Apply(r, r.rows)
               /\ gen' = Disturb(gen)
               /\ last' = Outcome("save_table_as_parquet", r.err, <<>>, 1, TRUE,
                                  IF r.err = "none" THEN 0 ELSE 1)
    /\ UNCHANGED <<dbFile, conn, hstate, closes, scope, loaded, installed>>

----------------------------------------------------------------------------
(* Remote-storage enabler: connect_to_s3 *)

\* set_s3_credentials: one SET per item of aws_creds, in order.  failAt is
\* the engine call of connect_to_s3 the engine rejects (0: none).  The result
\* is the session options, the error and the number of calls made.
RECURSIVE SetS3Credentials(_, _, _)
SetS3Credentials(C, i, failAt) ==
    IF i > Len(AwsConfig) THEN [config |-> C, err |-> "none", calls |-> i - 1]
    ELSE LET r == Execute([kind |-> "set", key |-> AwsConfig[i][1],
                           value |-> AwsConfig[i][2]],
                          NoParams, tables, files, C, i # failAt)
         IN IF r.err # "none" THEN [config |-> C, err |-> r.err, calls |-> i]
            ELSE SetS3Credentials(r.config, i + 1, failAt)

\* install_and_load_extensions: install, then load, for each extension in
\* order; step is the number of the next engine call.
RECURSIVE InstallAndLoadExtensions(_, _, _, _)
InstallAndLoadExtensions(I, L, j, failAt) ==
    LET step == Len(AwsConfig) + 2 * j - 1
    IN IF j > Len(Extensions)
       THEN [installed |-> I, loaded |-> L, err |-> "none", calls |-> step - 1]
       ELSE IF step = failAt
       THEN [installed |-> I, loaded |-> L, err |-> "duckdb.Error", calls |-> step]
       ELSE IF step + 1 = failAt
       THEN [installed |-> I \cup {Extensions[j]}, loaded |-> L,
             err |-> "duckdb.Error", calls |-> step + 1]
       ELSE InstallAndLoadExtensions(I \cup {Extensions[j]}, L \cup {Extensions[j]},
                                     j + 1, failAt)

\* A faulty order: the credentials are set before the identity is checked.
ConnectToS3SetsFirst(identity, credsOk, failAt) ==
    /\ IF conn = 0
       THEN /\ last' = Outcome("connect_to_s3", "ConnectionError", <<>>, 0, FALSE, 0)
            /\ UNCHANGED <<config, loaded, installed, cursor, gen>>
       ELSE LET s == SetS3Credentials(config, 1, failAt)
                e == InstallAndLoadExtensions(installed, loaded, 1, failAt)
            IN /\ config' = s.config
               /\ cursor' = [cursor EXCEPT ![conn] =
                                IF s.err = "none" THEN [open |-> TRUE, rows |-> <<>>]
                                ELSE NoResult]
               /\ gen' = Disturb(gen)
               /\ IF s.err # "none"
                  THEN /\ last' = Outcome("connect_to_s3", s.err, <<>>, s.calls, TRUE, 0)
                       /\ UNCHANGED <<loaded, installed>>
                  ELSE IF identity # "valid" \/ ~credsOk
                  THEN /\ last' = [Outcome("connect_to_s3", "CredentialError", <<>>,
                                           s.calls, TRUE, 0) EXCEPT !.sts = 1]
                       /\ UNCHANGED <<loaded, installed>>
                  ELSE /\ installed' = e.installed
                       /\ loaded' = e.loaded
                       /\ last' = [Outcome("connect_to_s3", e.err, <<>>, e.calls, TRUE, 0)
                                      EXCEPT !.sts = 2]
    /\ UNCHANGED <<dbFile, conn, hstate, closes, scope, tables, files>>

\* A faulty order: the identity service is asked before self._conn is tested.
ConnectToS3AsksFirst(identity, credsOk, failAt) ==
    /\ IF identity # "valid"
       THEN /\ last' = [Outcome("connect_to_s3", "CredentialError", <<>>, 0, Connected, 0)
                           EXCEPT !.sts = 1]
            /\ UNCHANGED <<config, loaded, installed, cursor, gen>>
       ELSE IF ~credsOk
       THEN /\ last' = [Outcome("connect_to_s3", "CredentialError", <<>>, 0, Connected, 0)
                           EXCEPT !.sts = 2]
            /\ UNCHANGED <<config, loaded, installed, cursor, gen>>
       ELSE IF conn = 0
       THEN /\ last' = [Outcome("connect_to_s3", "ConnectionError", <<>>, 0, FALSE, 0)
                           EXCEPT !.sts = 2]
            /\ UNCHANGED <<config, loaded, installed, cursor, gen>>
       ELSE LET s == SetS3Credentials(config, 1, failAt)
                e == InstallAndLoadExtensions(installed, loaded, 1, failAt)
            IN /\ config' = s.config
               /\ cursor' = [cursor EXCEPT ![conn] =
                                IF s.err = "none" THEN [open |-> TRUE, rows |-> <<>>]
                                ELSE NoResult]
               /\ gen' = Disturb(gen)
               /\ IF s.err # "none"
                  THEN /\ last' = [Outcome("connect_to_s3", s.err, <<>>, s.calls, TRUE, 0)
                                      EXCEPT !.sts = 2]
                       /\ UNCHANGED <<loaded, installed>>
                  ELSE /\ installed' = e.installed
                       /\ loaded' = e.loaded
                       /\ last' = [Outcome("connect_to_s3", e.err, <<>>, e.calls, TRUE, 0)
                                      EXCEPT !.sts = 2]
    /\ UNCHANGED <<dbFile, conn, hstate, closes, scope, tables, files>>

ConnectToS3(identity, credsOk, failAt) ==
    /\ IF conn = 0
       THEN /\ last' = Outcome("connect_to_s3", "ConnectionError", <<>>, 0, FALSE, 0)
            /\ UNCHANGED <<config, loaded, installed, cursor, gen>>
       ELSE IF identity # "valid"
       THEN \* sts.get_caller_identity() raises
            /\ last' = [Outcome("connect_to_s3", "CredentialError", <<>>, 0, TRUE, 0)
                           EXCEPT !.sts = 1]
            /\ UNCHANGED <<config, loaded, installed, cursor, gen>>
       ELSE IF ~credsOk
       THEN \* session.get_credentials().get_frozen_credentials() raises
            /\ last' = [Outcome("connect_to_s3", "CredentialError", <<>>, 0, TRUE, 0)
                           EXCEPT !.sts = 2]
            /\ UNCHANGED <<config, loaded, installed, cursor, gen>>
       ELSE LET s == SetS3Credentials(config, 1, failAt)
                e == InstallAndLoadExtensions(installed, loaded, 1, failAt)
            IN /\ config' = s.config
               /\ cursor' = [cursor EXCEPT ![conn] =
                                IF s.err = "none" THEN [open |-> TRUE, rows |-> <<>>]
                                ELSE NoResult]
               /\ gen' = Disturb(gen)
               /\ IF s.err # "none"
                  THEN /\ last' = [Outcome("connect_to_s3", s.err, <<>>, s.calls, TRUE, 0)
                                      EXCEPT !.sts = 2]
                       /\ UNCHANGED <<loaded, installed>>
                  ELSE /\ installed' = e.installed
                       /\ loaded' = e.loaded
                       /\ last' = [Outcome("connect_to_s3", e.err, <<>>, e.calls, TRUE, 0)
                                      EXCEPT !.sts = 2]
    /\ UNCHANGED <<dbFile, conn, hstate, closes, scope, tables, files>>

----------------------------------------------------------------------------
(* The specification *)

Next ==
    \/ \E ok \in BOOLEAN, kept \in BOOLEAN : CreateDuckdbConnection(ok, kept)
    \/ Close
    \/ \E ok \in BOOLEAN, kept \in BOOLEAN : Enter(ok, kept)
    \/ Exit
    \/ \E identity \in Identities, credsOk \in BOOLEAN, failAt \in 0..S3Steps :
          ConnectToS3(identity, credsOk, failAt)
    \/ \E stmt \in Queries, params \in ParamValues : ExecuteQuery(stmt, params)
    \/ \E stmt \in Queries, params \in ParamValues : ExecuteQueryFetchOne(stmt, params)
    \/ GenNext
    \/ \E data \in Datasets, path \in Paths, io \in BOOLEAN : SaveParquet(data, path, io)
    \/ \E path \in Paths, ftype \in FileTypes, select \in SelectColumns,
          conds \in FilterConditions : ReadFile(path, ftype, select, conds)
    \/ \E name \in TableNames, data \in Datasets : CreateTable(name, data)
    \/ \E name \in TableNames, io \in BOOLEAN : SaveTableAsParquet(name, "d", "f", io)

Spec == Init /\ [][Next]_vars

\* A caller that connects only when the facade holds no connection.
Open == conn = 0 /\ CreateDuckdbConnection(TRUE, FALSE)

\* The lifecycle alone, with a lazy sequence to hold a connection.
NextLifecycle ==
    \/ \E ok \in BOOLEAN, kept \in BOOLEAN : CreateDuckdbConnection(ok, kept)
    \/ Close
    \/ \E ok \in BOOLEAN, kept \in BOOLEAN : Enter(ok, kept)
    \/ Exit
    \/ \E data \in Datasets : CreateTable("t", data)
    \/ \E stmt \in Queries : ExecuteQueryFetchOne(stmt, NoParams)
    \/ GenNext

SpecLifecycle == Init /\ [][NextLifecycle]_vars

\* Opening, closing and enabling remote storage.
NextS3 ==
    \/ \E ok \in BOOLEAN, kept \in BOOLEAN : CreateDuckdbConnection(ok, kept)
    \/ Close
    \/ \E identity \in Identities, credsOk \in BOOLEAN, failAt \in 0..S3Steps :
          ConnectToS3(identity, credsOk, failAt)

SpecS3 == Init /\ [][NextS3]_vars

\* The query executor over relations made by create_table.
NextQuery ==
    \/ Open
    \/ Close
    \/ \E name \in TableNames, data \in Datasets : CreateTable(name, data)
    \/ \E stmt \in Queries, params \in ParamValues : ExecuteQuery(stmt, params)
    \/ \E stmt \in Queries, params \in ParamValues : ExecuteQueryFetchOne(stmt, params)
    \/ GenNext

SpecQuery == Init /\ [][NextQuery]_vars

\* The interchange operations.
NextFiles ==
    \/ Open
    \/ Close
    \/ \E data \in Datasets, path \in Paths, io \in BOOLEAN : SaveParquet(data, path, io)
    \/ \E path \in Paths, ftype \in FileTypes, select \in SelectColumns,
          conds \in FilterConditions : ReadFile(path, ftype, select, conds)
    \/ \E name \in TableNames, data \in Datasets : CreateTable(name, data)
    \/ \E name \in TableNames, io \in BOOLEAN : SaveTableAsParquet(name, "d", "f", io)
    \/ ExecuteQuery([kind |-> "drop", table |-> TempTable], NoParams)

SpecFiles == Init /\ [][NextFiles]_vars

\* A table made from a dataset, written to a file and read back.
NextTable ==
    \/ Open
    \/ Close
    \/ \E name \in TableNames, data \in RoundTripData : CreateTable(name, data)
    \/ \E name \in TableNames, io \in BOOLEAN : SaveTableAsParquet(name, "d", "f", io)
    \/ \E ftype \in {"csv", "parquet"} :
          ReadFile(Path("d", "f", ".parquet"), ftype, <<>>, <<>>)
    \/ ExecuteQuery([kind |-> "drop", table |-> "t"], NoParams)

SpecTable == Init /\ [][NextTable]_vars

\* Files of both formats, read with every column list and condition list.
NextRead ==
    \/ Open
    \/ Close
    \/ \E path \in Paths : SaveParquet(UniformRows, path, TRUE)
    \/ \E path \in Paths, ftype \in {"csv", "parquet"}, select \in SelectColumns,
          conds \in ReadConditions : ReadFile(path, ftype, select, conds)

SpecRead == Init /\ [][NextRead]_vars

\* Local and remote files, with connect_to_s3 succeeding or failing at any
\* step.
NextRemote ==
    \/ Open
    \/ Close
    \/ \E identity \in Identities, credsOk \in BOOLEAN, failAt \in 0..S3Steps :
          ConnectToS3(identity, credsOk, failAt)
    \/ CreateTable("t", UniformRows)
    \/ \E dir \in {"d", RemoteDir} : SaveTableAsParquet("t", dir, "f", TRUE)
    \/ \E path \in {Path("d", "f", ".parquet"), RemotePath} :
          ReadFile(path, "parquet", <<>>, <<>>)

SpecRemote == Init /\ [][NextRemote]_vars

\* save_parquet succeeding and failing at each step, beside a table and the
\* caller's own DROP of temp_table.
NextSave ==
    \/ Open
    \/ Close
    \/ \E data \in Datasets, path \in Paths, io \in BOOLEAN : SaveParquet(data, path, io)
    \/ CreateTable("t", UniformRows)
    \/ \E table \in {TempTable, "t"} :
          ExecuteQuery([kind |-> "drop", table |-> table], NoParams)

SpecSave == Init /\ [][NextSave]_vars

\* Every operation that needs a connection, with and without one.
NextConnectivity ==
    \/ Open
    \/ Close
    \/ \E stmt \in {[kind |-> "select", table |-> "t"], Stmt("bad")} :
          ExecuteQuery(stmt, NoParams)
    \/ ExecuteQueryFetchOne([kind |-> "select", table |-> "t"], NoParams)
    \/ GenNext
    \/ \E ftype \in FileTypes : ReadFile(Path("d", "f", ".parquet"), ftype, <<>>, <<>>)
    \/ \E data \in {<<>>, UniformRows} : CreateTable("t", data)
    \/ SaveParquet(UniformRows, Path("d", "f", ".parquet"), TRUE)
    \/ SaveTableAsParquet("t", "d", "f", TRUE)

SpecConnectivity == Init /\ [][NextConnectivity]_vars

----------------------------------------------------------------------------
(* Claims *)

Live == {h \in Handles : hstate[h] = "open"}

\* A step of an operation that needs a connection: execute_query, the first
\* pull of a lazy sequence, read_file with a valid file type, create_table
\* with a non-empty dataset, save_parquet, save_table_as_parquet.
QueryDependentStep ==
    \/ \E stmt \in Queries, params \in ParamValues : ExecuteQuery(stmt, params)
    \/ gen.st = "new" /\ GenNext
    \/ \E path \in Paths, ftype \in {"csv", "parquet"}, select \in SelectColumns,
          conds \in FilterConditions : ReadFile(path, ftype, select, conds)
    \/ \E name \in TableNames, data \in Datasets \ {<<>>} : CreateTable(name, data)
    \/ \E data \in Datasets, path \in Paths, io \in BOOLEAN : SaveParquet(data, path, io)
    \/ \E name \in TableNames, io \in BOOLEAN : SaveTableAsParquet(name, "d", "f", io)

\* C1: every query-dependent operation called while the facade has no open
\* connection fails with ConnectionError and performs no engine interaction.
C1_NoConnectionRaisesConnectionError ==
    [][(conn = 0 /\ QueryDependentStep) =>
          /\ last'.err = "ConnectionError"
          /\ last'.calls = 0
          /\ UNCHANGED engine]_vars

\* C2: at most one engine handle opened by the facade is live at any time.
C2_AtMostOneLiveHandle == Cardinality(Live) <= 1

\* C3: once the scope has been left, the handle opened on entry has been
\* closed exactly once and the facade holds no handle.
C3_ScopeExitReleasesEntryHandle ==
    last.op = "__exit__" =>
        /\ conn = 0
        /\ hstate[scope.entry] = "closed"
        /\ closes[scope.entry] = 1

\* C4: a connect_to_s3 call that fails leaves the session options and the
\* extensions as they were before the call.
C4_FailedConnectToS3ChangesNothing ==
    [][(/\ \E identity \in Identities, credsOk \in BOOLEAN, failAt \in 0..S3Steps :
              ConnectToS3(identity, credsOk, failAt)
        /\ last'.err # "none") =>
          UNCHANGED <<config, loaded, installed>>]_vars

\* C5: connect_to_s3 on an open connection with an invalid or absent identity
\* fails with CredentialError before any engine call: no session option is
\* set and no extension is installed or loaded.
C5_InvalidIdentityFailsBeforeEngine ==
    [][(/\ conn # 0
        /\ \E identity \in Identities \ {"valid"}, credsOk \in BOOLEAN,
              failAt \in 0..S3Steps : ConnectToS3(identity, credsOk, failAt)) =>
          /\ last'.err = "CredentialError"
          /\ last'.calls = 0
          /\ UNCHANGED engine]_vars

\* connect_to_s3 has failed on the identity check, on a connection whose
\* session options an earlier call had set.
C5_Witness ==
    /\ last.op = "connect_to_s3"
    /\ last.connected
    /\ last.err = "CredentialError"
    /\ last.sts = 1
    /\ DOMAIN config # {}

\* C6: a lazy sequence drained with no other call in between has yielded
\* exactly the rows, in order, that execute_query returns for the statement
\* and parameters in the state of the first pull; once stopped, a pull yields
\* nothing and runs nothing.
C6_DrainedSequenceEqualsExecuteQuery ==
    /\ [](gen.st = "done" /\ gen.clean => gen.yielded = gen.want)
    /\ [][(gen.st \in {"done", "failed"} /\ GenNext) =>
             /\ last'.err = "StopIteration"
             /\ last'.rows = <<>>
             /\ last'.calls = 0
             /\ UNCHANGED <<gen, engine>>]_vars

\* A sequence of two rows has been drained undisturbed, and pulled once more.
C6_Witness ==
    /\ gen.st = "done"
    /\ gen.clean
    /\ Len(gen.yielded) = 2
    /\ last.op = "next"
    /\ last.calls = 0

\* C7: every row mapping execute_query returns has, as its key list, the
\* ordered column names of the statement's result metadata.
C7_RowKeysAreResultColumns ==
    [][\A stmt \in Queries, params \in ParamValues :
          (conn # 0 /\ ExecuteQuery(stmt, params) /\ last'.err = "none") =>
             \A i \in 1..Len(last'.rows) :
                DictKeys(last'.rows[i]) =
                   Execute(stmt, params, tables, files, config, TRUE).cols]_vars

\* C8: after save_parquet(rows, path) has returned, read_file(path, 'parquet')
\* returns rows equal to rows.
C8_SaveParquetRoundTrip ==
    [][\A data \in Datasets, path \in Paths, io \in BOOLEAN :
          (conn # 0 /\ SaveParquet(data, path, io) /\ last'.err = "none") =>
             LET out == ExecuteQueryResult(BuildReadQuery(path, "parquet", <<>>, <<>>),
                                           NoParams, tables', files', config')
             IN out.err = "none" /\ RowsEq(out.rows, data)]_vars

\* C9: read_file with a file type other than csv and parquet fails with
\* ValueError, makes no engine call and changes nothing, whatever the path,
\* the columns, the conditions and the connection state.
C9_BadFileTypeIsRejectedFirst ==
    [][(\E path \in Paths, ftype \in FileTypes \ {"csv", "parquet"},
           select \in SelectColumns, conds \in FilterConditions :
              ReadFile(path, ftype, select, conds)) =>
          /\ last'.err = "ValueError"
          /\ last'.calls = 0
          /\ UNCHANGED <<dbFile, conn, hstate, closes, scope, engine, gen>>]_vars

\* read_file has rejected a file type on an open connection with a file on
\* disk.
C9_Witness ==
    /\ last.op = "read_file"
    /\ last.err = "ValueError"
    /\ conn # 0
    /\ DOMAIN files # {}

\* C10: create_table with an empty dataset fails with ValueError, issues no
\* statement and leaves the relations as they are, for every table name.
C10_EmptyDatasetCreatesNothing ==
    [][(\E name \in TableNames : CreateTable(name, <<>>)) =>
          /\ last'.err = "ValueError"
          /\ last'.calls = 0
          /\ UNCHANGED engine]_vars

\* create_table has rejected an empty dataset on an open connection.
C10_Witness ==
    /\ last.op = "create_table"
    /\ last.err = "ValueError"
    /\ last.connected
    /\ conn # 0

\* C11: close is idempotent.  On a facade with no open connection it is a
\* no-op: it raises nothing, makes no engine call and changes nothing.  After
\* any close the facade holds no handle, and no handle is ever released more
\* than once, so closing twice leaves the state closing once leaves.
C11_CloseIsIdempotent ==
    /\ [](\A h \in Handles : closes[h] <= 1)
    /\ [][Close =>
             /\ last'.err = "none"
             /\ conn' = 0
             /\ conn = 0 =>
                    /\ last'.calls = 0
                    /\ UNCHANGED <<dbFile, conn, hstate, closes, scope, engine, gen>>]_vars

\* close has been called on a facade an earlier close had already closed.
C11_Witness ==
    /\ last.op = "close"
    /\ last.calls = 0
    /\ conn = 0
    /\ Live = {}
    /\ \E h \in Handles : closes[h] = 1

\* C12: connect_to_s3 called with no open connection fails with
\* ConnectionError before anything else happens: the identity service is not
\* contacted, and no SET, INSTALL or LOAD reaches the engine.
C12_NoConnectionFailsBeforeIdentity ==
    [][(/\ conn = 0
        /\ \E identity \in Identities, credsOk \in BOOLEAN, failAt \in 0..S3Steps :
              ConnectToS3(identity, credsOk, failAt)) =>
          /\ last'.err = "ConnectionError"
          /\ last'.sts = 0
          /\ last'.calls = 0
          /\ UNCHANGED engine]_vars

\* connect_to_s3 has failed for want of a connection, on a facade that had
\* one before and had installed extensions through it.
C12_Witness ==
    /\ last.op = "connect_to_s3"
    /\ last.err = "ConnectionError"
    /\ conn = 0
    /\ installed # {}

\* Equality of two row lists as sets of rows, a row being equal to another
\* when it has the same keys with the same values, in any order.
RowsSetEq(x, y) ==
    /\ \A i \in 1..Len(x) : \E j \in 1..Len(y) : DictEq(x[i], y[j])
    /\ \A j \in 1..Len(y) : \E i \in 1..Len(x) : DictEq(x[i], y[j])

\* The rows read_file(dir/f.parquet, 'parquet') returns after
\* save_table_as_parquet(name, dir, 'f') in the state T, F, C, or the error
\* of the call that fails.
TableRoundTrip(name, T, F, C) ==
    LET w == Execute(SaveTableStmt(name, "d", "f"), NoParams, T, F, C, TRUE)
        out == ExecuteQueryResult(
                  BuildReadQuery(Path("d", "f", ".parquet"), "parquet", <<>>, <<>>),
                  NoParams, w.tables, w.files, w.config)
    IN IF w.err # "none" THEN [err |-> w.err, rows |-> <<>>] ELSE out

\* All rows of the dataset have the same keys.
SameKeys(data) == \A i, j \in 1..Len(data) : KeySet(data[i]) = KeySet(data[j])

\* C13 as stated: for every dataset, once create_table(name, rows) has
\* returned, save_table_as_parquet followed by read_file of the file written
\* returns rows equal, as a set of rows, to the dataset.
C13_TableRoundTrip ==
    [][\A name \in TableNames, data \in RoundTripData :
          (conn # 0 /\ CreateTable(name, data) /\ last'.err = "none") =>
             LET out == TableRoundTrip(name, tables', files', config')
             IN out.err = "none" /\ RowsSetEq(out.rows, data)]_vars

\* C13 amended: the round trip returns the dataset when all its rows have the
\* same keys.
C13_TableRoundTripSameKeys ==
    [][\A name \in TableNames, data \in RoundTripData :
          (/\ SameKeys(data)
           /\ conn # 0
           /\ CreateTable(name, data)
           /\ last'.err = "none") =>
             LET out == TableRoundTrip(name, tables', files', config')
             IN out.err = "none" /\ RowsSetEq(out.rows, data)]_vars

\* read_file has returned the two rows of a table saved as parquet, their
\* keys in the order b, a of the dataset's first row.
C13_Witness ==
    /\ last.op = "read_file"
    /\ last.err = "none"
    /\ "t" \in DOMAIN tables
    /\ Path("d", "f", ".parquet") \in DOMAIN files
    /\ Len(last.rows) = 2
    /\ DictKeys(last.rows[1]) = <<"b", "a">>
    /\ RowsSetEq(last.rows, Materialize(tables["t"].cols, tables["t"].rows))

\* The statement text C14 describes: SELECT, the columns separated by ', ' or
\* *, FROM read_<file_type>('<path>'), and with conditions WHERE and each
\* condition in parentheses, AND between them.
ReadStatementForm(path, ftype, select, conds) ==
    LET cols == IF Len(select) = 0 THEN <<"*">>
                ELSE [k \in 1..(2 * Len(select) - 1) |->
                         IF k % 2 = 1 THEN select[(k + 1) \div 2] ELSE ", "]
        cond(k) == CondText(conds[k])
        \* each condition takes five fragments and the AND after it a sixth
        where == [k \in 1..(6 * Len(conds) - 1) |->
                     CASE k % 6 = 1 -> "("
                       [] k % 6 = 2 -> cond((k + 4) \div 6)[1]
                       [] k % 6 = 3 -> cond((k + 3) \div 6)[2]
                       [] k % 6 = 4 -> cond((k + 2) \div 6)[3]
                       [] k % 6 = 5 -> ")"
                       [] k % 6 = 0 -> " AND "]
    IN <<"SELECT ">> \o cols \o <<" FROM read_", ftype, "('">> \o PathText(path)
          \o <<"')">> \o (IF Len(conds) = 0 THEN <<>> ELSE <<" WHERE ">> \o where)

\* C14: for the file types csv and parquet, read_file on an open connection
\* issues exactly one statement, and its text has the form SELECT <cols> FROM
\* read_<file_type>('<path>') [WHERE (c1) AND (c2) ...].
C14_ReadStatementForm ==
    [][\A path \in Paths, ftype \in {"csv", "parquet"}, select \in SelectColumns,
          conds \in ReadConditions :
          (conn # 0 /\ ReadFile(path, ftype, select, conds)) =>
             /\ last'.calls = 1
             /\ BuildReadQuery(path, ftype, select, conds).text =
                   ReadStatementForm(path, ftype, select, conds)]_vars

\* read_file has returned no row from a file of two rows: only the list of
\* two conditions excludes both.
C14_Witness ==
    /\ last.op = "read_file"
    /\ last.err = "none"
    /\ last.calls = 1
    /\ last.rows = <<>>
    /\ \E path \in DOMAIN files : Len(files[path].rows) = 2

\* A connect_to_s3 call has returned without error on the connection the
\* facade holds: load of aws, its last engine call, has been done, and the
\* extensions loaded are those of this connection.
S3Enabled == conn # 0 /\ "aws" \in loaded

\* A statement that names a remote path is handed to the engine.
RemoteStep ==
    \/ SaveTableAsParquet("t", RemoteDir, "f", TRUE)
    \/ ReadFile(RemotePath, "parquet", <<>>, <<>>)

\* C15: the engine runs a statement that names a remote path only on a
\* connection on which connect_to_s3 has returned without error; reading a
\* local file needs no connect_to_s3.
C15_RemoteOnlyAfterConnectToS3 ==
    [][/\ (RemoteStep /\ last'.err = "none") => S3Enabled
       /\ (/\ ReadFile(Path("d", "f", ".parquet"), "parquet", <<>>, <<>>)
           /\ conn # 0
           /\ Path("d", "f", ".parquet") \in DOMAIN files) => last'.err = "none"]_vars

\* A lazy sequence is suspended on the connection the facade holds.
Interleaved == gen.st = "running" /\ gen.h = conn

\* C16: a statement executed on the connection of a suspended lazy sequence
\* is not rejected: it ends as it would without the sequence, the sequence
\* stays suspended, and the connection's cursor holds the new statement's
\* result (what the call has not fetched of it).  The next pull of the
\* sequence takes the first unread row of that result, keyed by the columns
\* of the sequence's own statement.
C16_InterleavedStatementTakesTheCursor ==
    [][/\ \A name \in TableNames, data \in Datasets \ {<<>>} :
             (Interleaved /\ CreateTable(name, data)) =>
                LET r == Execute([kind |-> "ctas", table |-> name,
                                  df |-> DataFrame(data)],
                                 NoParams, tables, files, config, TRUE)
                IN /\ last'.err = r.err
                   /\ gen' = [gen EXCEPT !.clean = FALSE]
                   /\ cursor'[conn] = IF r.err = "none"
                                      THEN [open |-> TRUE, rows |-> r.rows]
                                      ELSE NoResult
       /\ \A stmt \in Queries, params \in ParamValues :
             (Interleaved /\ ExecuteQuery(stmt, params)) =>
                LET r == Execute(stmt, params, tables, files, config, TRUE)
                IN /\ last'.err = r.err
                   /\ gen' = [gen EXCEPT !.clean = FALSE]
                   /\ cursor'[conn] = IF r.err = "none"
                                      THEN [open |-> TRUE, rows |-> <<>>]
                                      ELSE NoResult
       /\ (/\ gen.st = "running"
           /\ ~gen.clean
           /\ GenNext
           /\ hstate[gen.h] = "open"
           /\ cursor[gen.h].open
           /\ cursor[gen.h].rows # <<>>) =>
             /\ last'.err = "none"
             /\ last'.rows = <<DictZip(gen.columns, Head(cursor[gen.h].rows))>>
             /\ cursor'[gen.h].rows = Tail(cursor[gen.h].rows)]_vars

\* A sequence over a statement of two columns has yielded a row of one key:
\* the Count row of a later create_table, under the first column name.
C16_Witness ==
    /\ last.op = "next"
    /\ last.err = "none"
    /\ gen.st = "running"
    /\ ~gen.clean
    /\ gen.columns = <<"a", "b">>
    /\ Len(last.rows) = 1
    /\ KeySet(last.rows[1]) = {"a"}

\* C17: a save_parquet call that returns has made its three engine calls
\* and leaves the relations as they were, temp_table not among them, and the
\* file written; a call whose second engine call, the copy, fails raises the
\* error and leaves temp_table, which did not exist before, on the
\* connection.
C17_SaveParquetStagesCopiesDrops ==
    [][\A data \in Datasets, path \in Paths, io \in BOOLEAN :
          (conn # 0 /\ SaveParquet(data, path, io)) =>
             /\ last'.err = "none" =>
                    /\ last'.calls = 3
                    /\ tables' = tables
                    /\ TempTable \notin DOMAIN tables'
                    /\ path \in DOMAIN files'
             /\ (TempTable \notin DOMAIN tables /\ DataFrame(data).cols # <<>> /\ ~io) =>
                    /\ last'.err = "duckdb.Error"
                    /\ last'.calls = 2
                    /\ TempTable \in DOMAIN tables'
                    /\ \A n \in DOMAIN tables : tables'[n] = tables[n]
                    /\ files' = files]_vars

\* save_parquet has failed at its copy on a connection that has the table
\* t: temp_table is left beside it.
C17_Witness ==
    /\ last.op = "save_parquet"
    /\ last.calls = 2
    /\ last.err = "duckdb.Error"
    /\ DOMAIN tables = {"t", TempTable}

\* The connection the facade holds has a relation temp_table.
Orphaned == conn # 0 /\ TempTable \in DOMAIN tables

\* C20: while the connection has the temp_table a failed copy left, every
\* save_parquet call fails at its first engine call and writes no file, for
\* any dataset and path; and temp_table stays on the connection through every
\* call except the caller's own DROP of it and the closing or replacing of the
\* connection.
C20_OrphanedTempTableBlocksSaveParquet ==
    [][Orphaned =>
          /\ \A data \in Datasets, path \in Paths, io \in BOOLEAN :
                SaveParquet(data, path, io) =>
                   /\ last'.err = "duckdb.Error"
                   /\ last'.calls = 1
                   /\ files' = files
                   /\ tables' = tables
          /\ \/ Orphaned' /\ conn' = conn
             \/ ExecuteQuery([kind |-> "drop", table |-> TempTable], NoParams)
             \/ conn' # conn]_vars

\* save_parquet has failed at staging: temp_table was there before the call
\* and is there after it.
C20_Witness ==
    /\ last.op = "save_parquet"
    /\ last.calls = 1
    /\ last.err = "duckdb.Error"
    /\ Orphaned

\* C18: every call that ends in an error has logged it at error level before
\* the error reaches the caller.  (The end of a lazy sequence is no error.)
C18_EveryFailureIsLogged ==
    last.err \notin {"none", "StopIteration"} => last.logged >= 1

\* C19: a call of execute_query_fetch_one raises nothing, makes no engine
\* call, logs nothing and changes nothing but the sequence it returns.  The
\* first pull is what runs the statement, on the connection and the relations
\* of that moment: it logs, and it raises the missing-connection error or the
\* engine's error, or yields the first row the statement has then.  A
\* sequence not yet pulled is started by nothing but a pull.
C19_StatementRunsAtFirstPull ==
    [][/\ \A stmt \in Queries, params \in ParamValues :
             ExecuteQueryFetchOne(stmt, params) =>
                /\ last'.err = "none"
                /\ last'.calls = 0
                /\ last'.logged = 0
                /\ last'.info = 0
                /\ UNCHANGED <<dbFile, conn, hstate, closes, scope, engine>>
       /\ (gen.st = "new" /\ GenNext) =>
             /\ last'.info >= 1
             /\ IF conn = 0
                THEN last'.err = "AttributeError" /\ last'.logged = 1
                ELSE LET out == ExecuteQueryResult(gen.stmt, gen.params,
                                                  tables, files, config)
                     IN /\ last'.calls >= 1
                        /\ out.err # "none" =>
                               last'.err = out.err /\ last'.logged = 1
                        /\ (out.err = "none" /\ out.rows # <<>>) =>
                               last'.err = "none" /\ last'.rows = <<out.rows[1]>>
                        /\ (out.err = "none" /\ out.rows = <<>>) =>
                               last'.err = "StopIteration"
       /\ (gen.st = "new" /\ ~GenNext) => gen'.st = "new"]_vars

\* The first pull of a sequence has run the statement and yielded a row.
C19_Witness ==
    /\ last.op = "next"
    /\ last.err = "none"
    /\ last.calls = 2
    /\ last.info = 1
    /\ gen.st = "running"
    /\ Len(gen.yielded) = 1

====
